---- MODULE Spec2Model ----
(***************************************************************************)
(* Model of src/main.py: the travel reimbursement calculator               *)
(* calculate_reimbursement(days, miles, receipts) and the command-line     *)
(* script around it.                                                       *)
(*                                                                         *)
(* Numbers.  days is a Python int and is an integer here.  miles, receipts *)
(* and every amount computed from them are Python floats.  They are        *)
(* modelled as exact decimal fixed-point numbers with sixteen decimal      *)
(* places: the tuple <<f1, f2, f3, f4, w>> stands for                      *)
(*     w + f4/10^4 + f3/10^8 + f2/10^12 + f1/10^16                         *)
(* with 0 <= f1..f4 < 10^4 and w any integer (so w is the floor of the     *)
(* number, also for negative numbers).  Every product the function forms   *)
(* from the inputs of this model has at most thirteen decimal places, so   *)
(* the arithmetic below is exact; the binary rounding error of a double    *)
(* (about 1e-13 on these magnitudes) is not modelled.                      *)
(***************************************************************************)
EXTENDS Integers, Sequences, FiniteSets, TLC

Limb == 100 * 100

(* Carry propagation: the low four limbs are brought into 0..Limb-1, the   *)
(* top limb takes the last carry (\div and % round towards minus infinity).*)
Norm(v) ==
  LET a1 == v[1]
      a2 == v[2] + (a1 \div Limb)
      a3 == v[3] + (a2 \div Limb)
      a4 == v[4] + (a3 \div Limb)
  IN  <<a1 % Limb, a2 % Limb, a3 % Limb, a4 % Limb, v[5] + (a4 \div Limb)>>

(* The float of an integer n, and the decimal literal w.ffff. *)
RInt(n) == <<0, 0, 0, 0, n>>
Dec(w, f) == <<0, 0, 0, f, w>>

RAdd(x, y) == Norm(<<x[1] + y[1], x[2] + y[2], x[3] + y[3], x[4] + y[4], x[5] + y[5]>>)
RNeg(x) == Norm(<<0 - x[1], 0 - x[2], 0 - x[3], 0 - x[4], 0 - x[5]>>)
RSub(x, y) == Norm(<<x[1] - y[1], x[2] - y[2], x[3] - y[3], x[4] - y[4], x[5] - y[5]>>)
RMulInt(x, n) == Norm(<<x[1] * n, x[2] * n, x[3] * n, x[4] * n, x[5] * n>>)

(* x * y: the limb convolution, carried, and cut back to sixteen places    *)
(* (c2 is the coefficient of 10^-32, c10 that of 1).                       *)
RMul(x, y) ==
  LET c2 == x[1] * y[1]
      c3 == x[1] * y[2] + x[2] * y[1]
      c4 == x[1] * y[3] + x[2] * y[2] + x[3] * y[1]
      c5 == x[1] * y[4] + x[2] * y[3] + x[3] * y[2] + x[4] * y[1]
      c6 == x[1] * y[5] + x[2] * y[4] + x[3] * y[3] + x[4] * y[2] + x[5] * y[1]
      c7 == x[2] * y[5] + x[3] * y[4] + x[4] * y[3] + x[5] * y[2]
      c8 == x[3] * y[5] + x[4] * y[4] + x[5] * y[3]
      c9 == x[4] * y[5] + x[5] * y[4]
      c10 == x[5] * y[5]
      a3 == c3 + (c2 \div Limb)
      a4 == c4 + (a3 \div Limb)
      a5 == c5 + (a4 \div Limb)
      a6 == c6 + (a5 \div Limb)
      a7 == c7 + (a6 \div Limb)
      a8 == c8 + (a7 \div Limb)
      a9 == c9 + (a8 \div Limb)
  IN  <<a6 % Limb, a7 % Limb, a8 % Limb, a9 % Limb, c10 + (a9 \div Limb)>>

RLess(x, y) ==
  IF x[5] # y[5] THEN x[5] < y[5]
  ELSE IF x[4] # y[4] THEN x[4] < y[4]
  ELSE IF x[3] # y[3] THEN x[3] < y[3]
  ELSE IF x[2] # y[2] THEN x[2] < y[2]
  ELSE x[1] < y[1]
RLeq(x, y) == ~RLess(y, x)
RAbs(x) == IF x[5] < 0 THEN RNeg(x) ELSE x
RMin(x, y) == IF RLess(y, x) THEN y ELSE x

(* math.floor(x), an int. *)
Floor(x) == x[5]

(* round(x, 2): to the nearest hundredth.  An exact decimal tie goes to    *)
(* the even hundredth; in Python the binary error of the double decides    *)
(* such a tie, and no amount of this model's inputs is one.                *)
Round2(x) ==
  LET h == x[4] \div 100
      r == x[4] % 100
      low == x[1] + x[2] + x[3]
      up == r > 50 \/ (r = 50 /\ low > 0) \/ (r = 50 /\ low = 0 /\ h % 2 = 1)
  IN  Norm(<<0, 0, 0, (IF up THEN h + 1 ELSE h) * 100, x[5]>>)

(* a / b for a float a and an int b: kept as the pair, compared by cross   *)
(* multiplication; b = 0 is Python's ZeroDivisionError and is decided by   *)
(* the caller before any comparison.                                       *)
Quot(a, b) == [num |-> a, den |-> b]
QLess(q, c) ==
  IF q.den > 0 THEN RLess(q.num, RMulInt(c, q.den))
  ELSE RLess(RMulInt(c, q.den), q.num)
QLeq(q, c) ==
  IF q.den > 0 THEN RLeq(q.num, RMulInt(c, q.den))
  ELSE RLeq(RMulInt(c, q.den), q.num)
QGeq(q, c) ==
  IF q.den > 0 THEN RLeq(RMulInt(c, q.den), q.num)
  ELSE RLeq(q.num, RMulInt(c, q.den))

----------------------------------------------------------------------------
(* calculate_reimbursement *)

BASE_PER_DIEM == Dec(93, 4500)
(* math.inf: no float of the model is a one-element tuple. *)
inf == <<1>>
MILEAGE_RATES ==
  << [threshold |-> RInt(150), rate |-> Dec(0, 5500)],
     [threshold |-> inf, rate |-> Dec(0, 4200)] >>
EFFICIENCY_BONUS == Dec(1, 2200)
ROUNDING_BUG_BONUS == Dec(0, 1100)

(* A faulty variant: the penalty only from the eighth day on. *)
AntiVacationAfterAWeek(days, miles) ==
  days > 7 /\ QLess(Quot(miles, days), RInt(50))

(* days >= 7 and miles/days < 50: `and` does not evaluate the division     *)
(* when days < 7.                                                          *)
AntiVacation(days, miles) ==
  days >= 7 /\ QLess(Quot(miles, days), RInt(50))

PerDiem(days) ==
  LET per_diem == RMulInt(BASE_PER_DIEM, days)
  IN  IF days = 5 THEN RMul(per_diem, Dec(1, 1700)) ELSE per_diem

(* A faulty variant: the tier's threshold is not applied. *)
ApplyMilesUncapped(remaining, threshold) == remaining

(* min(remaining, threshold) *)
ApplyMiles(remaining, threshold) ==
  IF threshold = inf THEN remaining ELSE RMin(remaining, threshold)

(* The for loop over MILEAGE_RATES from tier i on. *)
RECURSIVE MileageLoop(_, _, _)
MileageLoop(remaining, mileage, i) ==
  IF i > Len(MILEAGE_RATES) THEN [mileage |-> mileage, remaining |-> remaining]
  ELSE IF RLeq(remaining, RInt(0))
       THEN [mileage |-> mileage, remaining |-> remaining]
       ELSE LET apply_miles == ApplyMiles(remaining, MILEAGE_RATES[i].threshold)
            IN  MileageLoop(RSub(remaining, apply_miles),
                            RAdd(mileage, RMul(apply_miles, MILEAGE_RATES[i].rate)),
                            i + 1)

DailySpend(days, receipts) ==
  IF days > 0 THEN Quot(receipts, days) ELSE Quot(RInt(0), 1)

(* A faulty variant: the lower bound of the 1.12 band is exclusive. *)
SpendMultExclusive(daily_spend) ==
  IF ~QLeq(daily_spend, RInt(75)) /\ QLeq(daily_spend, RInt(115)) THEN Dec(1, 1200)
  ELSE IF QLess(daily_spend, RInt(40)) THEN Dec(0, 8800)
  ELSE RInt(1)

SpendMult(daily_spend) ==
  IF QGeq(daily_spend, RInt(75)) /\ QLeq(daily_spend, RInt(115)) THEN Dec(1, 1200)
  ELSE IF QLess(daily_spend, RInt(40)) THEN Dec(0, 8800)
  ELSE RInt(1)

Efficiency(mpd) ==
  IF QGeq(mpd, RInt(180)) /\ QLeq(mpd, RInt(220)) THEN EFFICIENCY_BONUS
  ELSE RInt(1)

(* hash(...) % 1000 / 1000: Python's % takes the sign of the divisor, as   *)
(* % does here; k / 1000 is the decimal 0.kkk.                             *)
RandSeed(input_hash) == Norm(<<0, 0, 0, (input_hash % 1000) * 10, 0>>)

Randomization(rand_seed) == RAdd(Dec(0, 8800), RMul(rand_seed, Dec(0, 800)))

(* A faulty variant: the window of 0.005 of the earlier revision. *)
RoundingBugNarrow(cents) ==
  \/ RLess(RAbs(RSub(cents, Dec(0, 4900))), Dec(0, 50))
  \/ RLess(RAbs(RSub(cents, Dec(0, 9900))), Dec(0, 50))

(* abs(cents - 0.49) < 0.01 or abs(cents - 0.99) < 0.01 *)
RoundingBug(cents) ==
  \/ RLess(RAbs(RSub(cents, Dec(0, 4900))), Dec(0, 100))
  \/ RLess(RAbs(RSub(cents, Dec(0, 9900))), Dec(0, 100))

(* The locals of the call after each statement of the function body; the  *)
(* frame f of one statement is the argument of the next.                   *)

(* Lines 110-135: per_diem, the mileage loop, spend_mult and efficiency. *)
Multipliers(days, miles, receipts, input_hash) ==
  [per_diem |-> PerDiem(days),
   spend_mult |-> SpendMult(DailySpend(days, receipts)),
   efficiency |-> Efficiency(Quot(miles, days)),
   input_hash |-> input_hash]
    @@ MileageLoop(miles, RInt(0), 1)

(* base = (per_diem + mileage) * spend_mult * efficiency *)
Base(f) ==
  f @@ [base |-> RMul(RMul(RAdd(f.per_diem, f.mileage), f.spend_mult), f.efficiency)]

Seed(f) == f @@ [rand_seed |-> RandSeed(f.input_hash)]
Random(f) == f @@ [randomization |-> Randomization(f.rand_seed)]

(* final = base * randomization *)
Final(f) == f @@ [final |-> RMul(f.base, f.randomization)]

(* cents = final - math.floor(final) *)
Cents(f) == f @@ [cents |-> RSub(f.final, RInt(Floor(f.final)))]

(* Whether the bonus is added: decided on final as it is before the bonus. *)
Bonus(f) == f @@ [bonus |-> RoundingBug(f.cents)]

(* final += ROUNDING_BUG_BONUS when the test holds; return round(final, 2). *)
(* The frame keeps final as it was before the bonus.                       *)
Return(f) ==
  f @@ [outcome |-> "return", path |-> "full",
        result |-> Round2(IF f.bonus THEN RAdd(f.final, ROUNDING_BUG_BONUS)
                          ELSE f.final)]

(* The call, with the hash of the formatted inputs given: how it ended,    *)
(* what it returned and the values of its locals when it ended.            *)
calculate_reimbursement(days, miles, receipts, input_hash) ==
  IF AntiVacation(days, miles)
  THEN [outcome |-> "return", path |-> "penalty",
        result |-> Round2(RMul(Dec(0, 8500), RMulInt(BASE_PER_DIEM, days)))]
  ELSE IF days = 0
  THEN [outcome |-> "raise", path |-> "full", error |-> "ZeroDivisionError",
        message |-> "float division by zero"]
  ELSE Return(Bonus(Cents(Final(Random(Seed(Base(
         Multipliers(days, miles, receipts, input_hash))))))))

----------------------------------------------------------------------------
(* The script: if __name__ == "__main__" *)

(* A command-line argument, by what int() and float() make of it: an       *)
(* integer literal ("7", "-1"), a literal with two decimals ("75.00", val  *)
(* in hundredths), or text that is no number.                              *)
IntTok(n) == [kind |-> "int", val |-> n]
FloatTok(c) == [kind |-> "float", val |-> c]
TextTok == [kind |-> "text", val |-> 0]

(* int(s) raises ValueError unless s is an integer literal. *)
IntParses(tok) == tok.kind = "int"
(* float(s) accepts both kinds of literal. *)
FloatParses(tok) == tok.kind \in {"int", "float"}
ToFloat(tok) ==
  IF tok.kind = "int" THEN RInt(tok.val) ELSE Norm(<<0, 0, 0, tok.val * 100, 0>>)

Digit(n) == <<"0", "1", "2", "3", "4", "5", "6", "7", "8", "9">>[n + 1]
RECURSIVE Digits(_)
Digits(n) == IF n < 10 THEN <<Digit(n)>> ELSE Digits(n \div 10) \o <<Digit(n % 10)>>

(* f"{x:.2f}": the sign, the integer digits, a point and two decimals of   *)
(* x rounded to hundredths.                                                *)
Fmt2f(x) ==
  LET m == Round2(RAbs(x))
      h == m[4] \div 100
  IN  (IF x[5] < 0 THEN <<"-">> ELSE <<>>)
        \o Digits(m[5]) \o <<".", Digit(h \div 10), Digit(h % 10)>>

NoCall == [outcome |-> "none"]
Unset == <<>>
UsageLine == <<"Usage: python reimbursement.py <days> <miles> <receipts>">>
ErrorLine(message) == <<"Error: ", message>>
Traceback(call) ==
  <<"Traceback (most recent call last):", call.error, ": ", call.message>>

(* The script once its three arguments are parsed and the call has ended:  *)
(* the result is printed, a ValueError is reported, and any other          *)
(* exception ends the process with a traceback and status 1.               *)
Report(d, m, r, call) ==
  [days |-> d, miles |-> m, receipts |-> r, call |-> call,
   stdout |-> IF call.outcome = "return" THEN <<Fmt2f(call.result)>>
              ELSE IF call.error = "ValueError" THEN <<ErrorLine(call.message)>>
              ELSE <<>>,
   stderr |-> IF call.outcome = "raise" /\ call.error # "ValueError"
              THEN Traceback(call) ELSE <<>>,
   status |-> IF call.outcome = "return" THEN 0 ELSE 1]

(* The script when int() or float() raises ValueError. *)
ParseError(d, m, message) ==
  [days |-> d, miles |-> m, receipts |-> Unset, call |-> NoCall,
   stdout |-> <<ErrorLine(message)>>, stderr |-> <<>>, status |-> 1]

(* One run of the script on the arguments args (sys.argv[1:]) in a process *)
(* where hash() of the formatted inputs is input_hash: what it printed,    *)
(* its exit status, its globals and the call it made.                      *)
Script(args, input_hash) ==
  IF Len(args) + 1 # 4
  THEN [days |-> Unset, miles |-> Unset, receipts |-> Unset, call |-> NoCall,
        stdout |-> <<UsageLine>>, stderr |-> <<>>, status |-> 1]
  ELSE IF ~IntParses(args[1])
  THEN ParseError(Unset, Unset, "invalid literal for int() with base 10")
  ELSE IF ~FloatParses(args[2])
  THEN ParseError(args[1].val, Unset, "could not convert string to float")
  ELSE IF ~FloatParses(args[3])
  THEN ParseError(args[1].val, ToFloat(args[2]), "could not convert string to float")
  ELSE Report(args[1].val, ToFloat(args[2]), ToFloat(args[3]),
              calculate_reimbursement(args[1].val, ToFloat(args[2]),
                                      ToFloat(args[3]), input_hash))

----------------------------------------------------------------------------
(* The inputs of the model. *)

MaxDays == 8
MaxMileIdx == 20
MileStep == 20
MaxReceiptIdx == 24
ReceiptStep == 500
HashStep == 337

DayArgs == {IntTok(d) : d \in (0 - 1)..MaxDays} \cup {TextTok, FloatTok(250)}
MileArgs == {IntTok(i * MileStep) : i \in (0 - 1)..MaxMileIdx} \cup {TextTok}
ReceiptArgs ==
  {FloatTok(i * ReceiptStep) : i \in (0 - 1)..MaxReceiptIdx} \cup {TextTok}
ArgLists ==
  {<<d, m, r>> : d \in DayArgs, m \in MileArgs, r \in ReceiptArgs}
    \cup {<<>>, <<IntTok(5)>>, <<IntTok(5), IntTok(200)>>,
          <<IntTok(5), IntTok(200), FloatTok(50000), IntTok(1)>>}

(* hash() of a str is keyed by a random key drawn when the interpreter     *)
(* starts (PYTHONHASHSEED unset): a process may see any value for a given  *)
(* string, negative, zero or positive (-1 gives the largest seed, 0.999).  *)
HashValues == {0 - HashStep, 0 - 1, 0, HashStep}

----------------------------------------------------------------------------
VARIABLES
  argv,      \* sys.argv[1:]: the command line
  ran,       \* whether the script has run on it
  days, miles, receipts,   \* the script's globals after parsing
  call,      \* the call of calculate_reimbursement the last run made
  stdout, stderr, status,  \* what the last run printed, and its exit status
  prev       \* what the run before the last printed, and its exit status

vars == <<argv, ran, days, miles, receipts, call, stdout, stderr, status, prev>>

NoRun == [ran |-> FALSE]

(* A command line is given; nothing has run. *)
Init ==
  /\ argv \in ArgLists
  /\ ran = FALSE
  /\ days = Unset /\ miles = Unset /\ receipts = Unset
  /\ call = NoCall
  /\ stdout = <<>> /\ stderr = <<>> /\ status = 0
  /\ prev = NoRun

(* The script runs from start to exit in a new process, in which the hash  *)
(* of the formatted inputs is input_hash.                                  *)
Main(input_hash) ==
  /\ \E s \in {Script(argv, input_hash)} :
       /\ days' = s.days /\ miles' = s.miles /\ receipts' = s.receipts
       /\ call' = s.call
       /\ stdout' = s.stdout /\ stderr' = s.stderr /\ status' = s.status
  /\ ran' = TRUE
  /\ prev' = IF ran THEN [ran |-> TRUE, stdout |-> stdout, stderr |-> stderr,
                          status |-> status]
             ELSE NoRun
  /\ UNCHANGED argv

(* One run of the script. *)
Next == \E h \in HashValues : ~ran /\ Main(h)

Spec == Init /\ [][Next]_vars

(* The script run any number of times on the same command line, each run   *)
(* in a process of its own.                                                *)
NextRuns == \E h \in HashValues : Main(h)

RunsSpec == Init /\ [][NextRuns]_vars

----------------------------------------------------------------------------
(* The properties.  The inputs are read from the command line: days, whole *)
(* miles and receipts in cents.                                            *)

Called == ran /\ call.outcome # "none"
Returned == Called /\ call.outcome = "return"
Valid == days >= 1 /\ miles[5] >= 0 /\ receipts[5] >= 0
InMiles == argv[2].val
InCents == argv[3].val
FullReturn == Returned /\ Valid /\ call.path = "full"

(* n hundredths and n ten-thousandths as floats. *)
Hundredths(n) == Dec(n \div 100, (n % 100) * 100)
TenThousandths(n) == Dec(n \div Limb, n % Limb)
ResultCents == call.result[5] * 100 + (call.result[4] \div 100)
Rejected(message) ==
  call.outcome = "raise" /\ call.error = "ValueError" /\ call.message = message

(* C1: a call with days < 1 fails with the InvalidArgument error "trip     *)
(* duration must be at least 1 day" and returns no amount.                 *)
C1_DaysBelowOneRejected ==
  (Called /\ days < 1) => Rejected("trip duration must be at least 1 day")

(* C2: with days >= 1, a call with miles < 0 fails with "miles traveled    *)
(* cannot be negative", and one with miles >= 0 and receipts < 0 fails     *)
(* with "receipt amount cannot be negative"; no amount is returned.        *)
C2_NegativeMilesOrReceiptsRejected ==
  (Called /\ days >= 1) =>
     /\ miles[5] < 0 => Rejected("miles traveled cannot be negative")
     /\ (miles[5] >= 0 /\ receipts[5] < 0)
          => Rejected("receipt amount cannot be negative")

(* C3: for every input the only failure of the call is an input-validation *)
(* error; no division by days = 0 is evaluated.                            *)
C3_OnlyValidationFailures ==
  (Called /\ call.outcome = "raise") => call.error = "ValueError"

(* C4: a valid input with days >= 7 and miles/days < 50 returns            *)
(* round(0.85 * 93.45 * days, 2), whatever the receipts and the hash are   *)
(* (556.03 for days = 7); every other valid input takes the full path.     *)
PenaltyCents(d) ==
  LET x == 794325 * d
      q == x \div 100
      r == x % 100
  IN  IF r > 50 \/ (r = 50 /\ q % 2 = 1) THEN q + 1 ELSE q
C4_AntiVacationShortCircuit ==
  (Called /\ Valid) =>
     IF days >= 7 /\ InMiles < 50 * days
     THEN /\ call.outcome = "return" /\ call.path = "penalty"
          /\ call.result = Hundredths(PenaltyCents(days))
          /\ days = 7 => stdout = << <<"5", "5", "6", ".", "0", "3">> >>
     ELSE call.path = "full"
C4_Witness ==
  /\ Called /\ Valid /\ days = 7 /\ InMiles = 200 /\ InCents > 0
  /\ call.path = "penalty"
  /\ stdout = << <<"5", "5", "6", ".", "0", "3">> >>

(* C5: two runs of the program on the same inputs print the same output.   *)
C5_SameInputsSameOutput ==
  prev.ran => (stdout = prev.stdout /\ status = prev.status)

(* C6: every run ends in exactly one of: usage and status 1 when the       *)
(* argument count is not 3, with nothing parsed or computed; the result    *)
(* with two decimals and status 0; "Error: <message>" and status 1, with   *)
(* no result, after a parse failure or a validation failure.               *)
AllParse ==
  Len(argv) = 3 /\ IntParses(argv[1]) /\ FloatParses(argv[2]) /\ FloatParses(argv[3])
TwoDecimals(line) ==
  /\ Len(line) >= 4
  /\ line[Len(line) - 2] = "."
  /\ \A i \in 1..Len(line) : i # Len(line) - 2 => line[i] # "."
UsageOutcome ==
  /\ Len(argv) # 3
  /\ stdout = <<UsageLine>> /\ status = 1
  /\ call = NoCall /\ days = Unset /\ miles = Unset /\ receipts = Unset
ResultOutcome ==
  /\ AllParse /\ call.outcome = "return"
  /\ Len(stdout) = 1 /\ TwoDecimals(stdout[1]) /\ status = 0
ErrorOutcome ==
  /\ Len(argv) = 3
  /\ ~AllParse \/ call.outcome = "raise"
  /\ Len(stdout) = 1 /\ stdout[1][1] = "Error: " /\ status = 1
C6_ThreeOutcomes ==
  ran => /\ UsageOutcome \/ ResultOutcome \/ ErrorOutcome
         /\ ~(UsageOutcome /\ ResultOutcome)
         /\ ~(UsageOutcome /\ ErrorOutcome)
         /\ ~(ResultOutcome /\ ErrorOutcome)

(* C7: on the full path of a valid input the mileage loop allocates every  *)
(* mile (remaining = 0) and mileage is 0.55 * min(miles, 150)              *)
(* + 0.42 * max(miles - 150, 0): 103.5 for 200 miles, and no less for more *)
(* miles.                                                                  *)
TieredCents(m) ==
  55 * (IF m < 150 THEN m ELSE 150) + 42 * (IF m > 150 THEN m - 150 ELSE 0)
C7_TieredMileage ==
  FullReturn =>
     /\ call.remaining = RInt(0)
     /\ call.mileage = Hundredths(TieredCents(InMiles))
     /\ InMiles = 200 => call.mileage = Dec(103, 5000)
     /\ RLeq(call.mileage, MileageLoop(RInt(InMiles + 1), RInt(0), 1).mileage)
     /\ RLeq(call.mileage, MileageLoop(RInt(InMiles + MileStep), RInt(0), 1).mileage)
C7_Witness ==
  /\ FullReturn /\ InMiles = 200
  /\ call.remaining = RInt(0) /\ call.mileage = Dec(103, 5000)

(* C8: on the full path of a valid input base is (per_diem + mileage)      *)
(* * spend_mult * efficiency, with per_diem 93.45 * days, times 1.17       *)
(* exactly when days = 5, spend_mult 1.12 for 75 <= receipts/days <= 115, 0.88 *)
(* for receipts/days < 40 and 1.0 otherwise, efficiency 1.22 for           *)
(* 180 <= miles/days <= 220 and 1.0 otherwise.                             *)
PerDiemTenThousandths == 9345 * days * (IF days = 5 THEN 117 ELSE 100)
SpendPercent ==
  IF 7500 * days <= InCents /\ InCents <= 11500 * days THEN 112
  ELSE IF InCents < 4000 * days THEN 88 ELSE 100
EfficiencyPercent ==
  IF 180 * days <= InMiles /\ InMiles <= 220 * days THEN 122 ELSE 100
C8_BaseAmount ==
  FullReturn =>
     /\ call.per_diem = TenThousandths(PerDiemTenThousandths)
     /\ call.spend_mult = Hundredths(SpendPercent)
     /\ call.efficiency = Hundredths(EfficiencyPercent)
     /\ RMulInt(call.base, 10000) =
          RMulInt(RMulInt(TenThousandths(PerDiemTenThousandths
                                           + 100 * TieredCents(InMiles)),
                          SpendPercent), EfficiencyPercent)
C8_Witness ==
  /\ FullReturn /\ days = 1 /\ InMiles = 180 /\ InCents = 7500
  /\ call.spend_mult = Dec(1, 1200) /\ call.efficiency = Dec(1, 2200)

(* C9: for every input and hash value, the seed is in [0, 1), the          *)
(* randomization factor in [0.88, 0.96), and                               *)
(* 0.88 * base <= final < 0.96 * base.                                     *)
C9_RandomizationBounds ==
  (Returned /\ call.path = "full") =>
     /\ RLeq(RInt(0), call.rand_seed) /\ RLess(call.rand_seed, RInt(1))
     /\ RLeq(Dec(0, 8800), call.randomization)
     /\ RLess(call.randomization, Dec(0, 9600))
     /\ RLeq(RMul(Dec(0, 8800), call.base), call.final)
     /\ RLess(call.final, RMul(Dec(0, 9600), call.base))

(* C10: on the full path of a valid input, with cents the fractional part  *)
(* of final, the amount returned is round(final + 0.11, 2) when cents is   *)
(* within 0.01 of 0.49 or of 0.99 and round(final, 2) otherwise: the bonus *)
(* is decided on final as it is before the bonus and raises the amount by  *)
(* 0.11 once.                                                              *)
InWindow(x) ==
  LET low == x[1] + x[2] + x[3]
  IN  \/ 4800 <= x[4] /\ x[4] < 5000 /\ ~(x[4] = 4800 /\ low = 0)
      \/ 9800 <= x[4] /\ ~(x[4] = 9800 /\ low = 0)
RoundCents(x) == Round2(x)[5] * 100 + (Round2(x)[4] \div 100)
C10_RoundingQuirk ==
  FullReturn =>
     /\ call.cents = <<call.final[1], call.final[2], call.final[3], call.final[4], 0>>
     /\ call.bonus = InWindow(call.final)
     /\ call.result = IF InWindow(call.final)
                      THEN Round2(RAdd(call.final, Dec(0, 1100)))
                      ELSE Round2(call.final)
     /\ ResultCents = RoundCents(call.final) + (IF InWindow(call.final) THEN 11 ELSE 0)
C10_Witness ==
  /\ FullReturn /\ call.bonus /\ InWindow(call.final)
  /\ ResultCents = RoundCents(call.final) + 11

====
